---------------------------- MODULE Spec2Model ----------------------------
(***************************************************************************)
(* A model of the review archive scripts (src/src/reviews-list.js).  The   *)
(* file holds the list-view script (lines 1-206) followed by the           *)
(* detail-view script (lines 208-389); each page loads one of them, so a   *)
(* function name that occurs in both halves names two functions.  The      *)
(* detail-view copies carry the suffix _detail here.                       *)
(*                                                                         *)
(* A JavaScript string is a sequence of one-character strings, one per     *)
(* UTF-16 code unit; a code unit outside ASCII, and the backtick (which a  *)
(* TLA+ string cannot hold), is written "U+XXXX".                          *)
(*                                                                         *)
(* The module holds five specifications over disjoint groups of            *)
(* variables:                                                              *)
(*   SpecCatalog   loadReviews with its parallel fetches and its sort      *)
(*   SpecMarkdown  markdownToHtml, one step per line of the body           *)
(*   SpecFront     splitFrontMatter and the two parseFrontMatter           *)
(*   SpecFilename  the filename inference of both views                    *)
(*   SpecRelDate   parseDate and formatRelativeDate                        *)
(***************************************************************************)
EXTENDS Integers, Sequences, FiniteSets, TLC

VARIABLES
    \* loadReviews (list view)
    files, outcome, results, catalog, lpc,
    \* markdownToHtml (detail view)
    markdown, lines, pos, html, inCode, codeLines, listBuffer, rendered, mpc,
    \* history of markdownToHtml: the source lines each emitted block came from
    origin, listOrigin, codeOrigin,
    \* initReviewPage / fetchReviewMetadata front-matter handling
    text, split, metadata, listMetadata, fpc, lfpc,
    \* filename inference
    filename, listInferred, detailInferred, listDone, detailDone,
    \* formatRelativeDate
    lang, tzMinutes, today, value, phrase, dpc

catVars == <<files, outcome, results, catalog, lpc>>
mdVars == <<markdown, lines, pos, html, inCode, codeLines, listBuffer, rendered, mpc,
            origin, listOrigin, codeOrigin>>
fmVars == <<text, split, metadata, listMetadata, fpc, lfpc>>
fnVars == <<filename, listInferred, detailInferred, listDone, detailDone>>
rdVars == <<lang, tzMinutes, today, value, phrase, dpc>>
vars == <<catVars, mdVars, fmVars, fnVars, rdVars>>

----------------------------------------------------------------------------
(* Strings                                                                 *)

Digits == {"0", "1", "2", "3", "4", "5", "6", "7", "8", "9"}

\* The characters a regular expression's "." does not match.
LineTerminators == {"\n", "\r", "U+2028", "U+2029"}

\* The characters String.prototype.trim removes and \s matches (those the
\* model's inputs can hold).
WhiteSpace == {" ", "\t", "\n", "\r", "U+00A0", "U+FEFF", "U+2028", "U+2029"}

IsDigit(c) == c \in Digits

AllDigits(s, a, b) == \A i \in a..b : IsDigit(s[i])

\* s.slice(a - 1): the characters from position a (1-based) on.
From(s, a) == SubSeq(s, a, Len(s))

\* Whether d occurs in s at position p.
At(s, p, d) == p >= 1 /\ p + Len(d) - 1 <= Len(s) /\ SubSeq(s, p, p + Len(d) - 1) = d

\* s.indexOf(c) + 1 for a character c: 0 when c does not occur.
IndexOf(s, c) ==
    IF \E i \in 1..Len(s) : s[i] = c
    THEN CHOOSE i \in 1..Len(s) : s[i] = c /\ \A j \in 1..(i - 1) : s[j] # c
    ELSE 0

\* The first position >= p at which d occurs in s, 0 when there is none.
Find(s, p, d) ==
    IF \E i \in p..Len(s) : At(s, i, d)
    THEN CHOOSE i \in p..Len(s) : At(s, i, d) /\ \A j \in p..(i - 1) : ~At(s, j, d)
    ELSE 0

RECURSIVE Join(_, _)
\* parts.join(sep)
Join(parts, sep) ==
    IF Len(parts) = 0 THEN <<>>
    ELSE IF Len(parts) = 1 THEN parts[1]
    ELSE parts[1] \o sep \o Join(Tail(parts), sep)

RECURSIVE SplitOn(_, _)
\* s.split(c) for a one-character separator c: never empty, '' gives [''].
SplitOn(s, c) ==
    LET i == IndexOf(s, c)
    IN  IF i = 0 THEN <<s>>
        ELSE <<SubSeq(s, 1, i - 1)>> \o SplitOn(From(s, i + 1), c)

RECURSIVE Concat(_)
\* The concatenation of a sequence of strings.
Concat(parts) == IF parts = <<>> THEN <<>> ELSE Head(parts) \o Concat(Tail(parts))

RECURSIVE TrimStart(_)
TrimStart(s) == IF s # <<>> /\ s[1] \in WhiteSpace THEN TrimStart(Tail(s)) ELSE s

RECURSIVE TrimEnd(_)
TrimEnd(s) ==
    IF s # <<>> /\ s[Len(s)] \in WhiteSpace THEN TrimEnd(SubSeq(s, 1, Len(s) - 1)) ELSE s

\* s.trim()
Trim(s) == TrimEnd(TrimStart(s))

RECURSIVE SeqsOfLen(_, _)
\* All sequences over S of length n.
SeqsOfLen(S, n) ==
    IF n = 0 THEN {<<>>} ELSE {Append(q, x) : q \in SeqsOfLen(S, n - 1), x \in S}

\* All sequences over S of length lo..hi.
SeqsUpTo(S, lo, hi) == UNION {SeqsOfLen(S, n) : n \in lo..hi}

----------------------------------------------------------------------------
(* Filename inference (list view lines 89-111, detail view lines 276-283)  *)

\* s.replace(/\.md$/i, '')
StripMd(s) ==
    LET n == Len(s)
    IN  IF n >= 3 /\ s[n - 2] = "." /\ s[n - 1] \in {"m", "M"} /\ s[n] \in {"d", "D"}
        THEN SubSeq(s, 1, n - 3)
        ELSE s

\* s matches /^\d{4}-\d{2}-\d{2}/
DashedDatePrefix(s) ==
    /\ Len(s) >= 10
    /\ AllDigits(s, 1, 4) /\ s[5] = "-"
    /\ AllDigits(s, 6, 7) /\ s[8] = "-"
    /\ AllDigits(s, 9, 10)

\* s matches /^\d{4}-\d{2}-\d{2}[-_](.+)$/
DatedSlugMatch(s) ==
    /\ DashedDatePrefix(s)
    /\ Len(s) >= 12
    /\ s[11] \in {"-", "_"}
    /\ \A i \in 12..Len(s) : s[i] \notin LineTerminators

\* s.split('_').slice(1).join('_')
AfterFirstUnderscore(s) ==
    LET i == IndexOf(s, "_") IN IF i = 0 THEN <<>> ELSE From(s, i + 1)

\* s.replace(/_/g, '-')
UnderscoresToDashes(s) == [i \in 1..Len(s) |-> IF s[i] = "_" THEN "-" ELSE s[i]]

\* s.replace(/[^0-9-]/g, '')
KeepDateChars(s) ==
    LET IsDateChar(c) == IsDigit(c) \/ c = "-" IN SelectSeq(s, IsDateChar)

\* s.split(/[_-]/)[0]
FirstToken(s, seps) ==
    IF \E i \in 1..Len(s) : s[i] \in seps
    THEN SubSeq(s, 1, (CHOOSE i \in 1..Len(s) :
                           s[i] \in seps /\ \A j \in 1..(i - 1) : s[j] \notin seps) - 1)
    ELSE s

\* List view, lines 89-94.
deriveTitleFromFilename(name) ==
    LET base == StripMd(name)
        rest == AfterFirstUnderscore(base)
    IN  IF DatedSlugMatch(base) THEN From(base, 12)
        ELSE IF rest # <<>> THEN rest ELSE base

\* List view, lines 96-104.
deriveDateFromFilename(name) ==
    LET base == UnderscoresToDashes(StripMd(name))
    IN  IF DashedDatePrefix(base) THEN SubSeq(base, 1, 10)
        ELSE IF Len(base) >= 8 /\ AllDigits(base, 1, 8) THEN SubSeq(base, 1, 8)
        ELSE KeepDateChars(FirstToken(name, {"_", "-"}))

\* List view, lines 106-111.
derivePermalinkFromFilename(name) ==
    LET base == StripMd(name)
        rest == AfterFirstUnderscore(base)
    IN  IF DatedSlugMatch(base) THEN From(base, 12)
        ELSE IF rest # <<>> THEN rest ELSE base

\* Detail view, lines 276-278.
deriveTitleFromFilename_detail(name) ==
    LET rest == AfterFirstUnderscore(StripMd(name))
    IN  IF rest # <<>> THEN rest ELSE name

\* Detail view, lines 280-283.
deriveDateFromFilename_detail(name) == KeepDateChars(FirstToken(name, {"_"}))

\* The pieces filenames are built from.
FilenameTokens ==
    {<<"2", "0", "2", "4", "-", "0", "1", "-", "1", "5">>, <<"2", "0", "2", "4", "0", "1", "1", "5">>, <<"-">>, <<"_">>, <<"s", "l", "u", "g">>, <<"m", "y">>, <<".", "m", "d">>}

\* The largest number of pieces in a filename.
MaxTokens == 4

Filenames == {Concat(q) : q \in SeqsUpTo(FilenameTokens, 1, MaxTokens)}

NoInference == [title |-> <<>>, date |-> <<>>, permalink |-> <<>>]

IdleFilename ==
    /\ filename = <<>>
    /\ listInferred = NoInference
    /\ detailInferred = NoInference
    /\ listDone = FALSE
    /\ detailDone = FALSE

\* fetchReviewMetadata, lines 60-62, for a document without front matter.
InferList ==
    /\ ~listDone
    /\ listInferred' = [title |-> deriveTitleFromFilename(filename),
                        date |-> deriveDateFromFilename(filename),
                        permalink |-> derivePermalinkFromFilename(filename)]
    /\ listDone' = TRUE
    /\ UNCHANGED <<filename, detailInferred, detailDone>>
    /\ UNCHANGED <<catVars, mdVars, fmVars, rdVars>>

\* renderHeader, lines 265-266, for a document without front matter.
InferDetail ==
    /\ ~detailDone
    /\ detailInferred' = [title |-> deriveTitleFromFilename_detail(filename),
                          date |-> deriveDateFromFilename_detail(filename),
                          permalink |-> <<>>]
    /\ detailDone' = TRUE
    /\ UNCHANGED <<filename, listInferred, listDone>>
    /\ UNCHANGED <<catVars, mdVars, fmVars, rdVars>>

----------------------------------------------------------------------------
(* parseDate and formatRelativeDate (lines 151-206)                        *)
(*                                                                         *)
(* Instants are kept in minutes since the epoch, not milliseconds: every   *)
(* instant the model handles (a date-only ISO string, a local midnight in  *)
(* a zone with a fixed whole-minute offset) is a whole minute, and TLC's   *)
(* integers are 32 bits wide.  86400000 ms is MinutesPerDay minutes.       *)

MinutesPerDay == 1440

RECURSIVE ParseNat(_)
\* The number a string of digits denotes.
ParseNat(s) ==
    IF s = <<>> THEN 0
    ELSE 10 * ParseNat(SubSeq(s, 1, Len(s) - 1)) +
         (CHOOSE k \in 0..9 : <<"0", "1", "2", "3", "4", "5", "6", "7", "8", "9">>[k + 1] = s[Len(s)])

RECURSIVE Decimal(_)
\* String(n) for a natural number n.
Decimal(n) ==
    LET d == <<<<"0", "1", "2", "3", "4", "5", "6", "7", "8", "9">>[(n % 10) + 1]>>
    IN  IF n < 10 THEN d ELSE Decimal(n \div 10) \o d

\* n in decimal, zero-padded to w digits.
Padded(n, w) ==
    LET s == Decimal(n) IN [i \in 1..(w - Len(s)) |-> "0"] \o s

\* The day number (days since 1970-01-01) of day d of month m of year y; a
\* day past the end of the month runs on into the next, as the engine's
\* MakeDay does.
DaysFromCivil(y, m, d) ==
    LET yy == IF m <= 2 THEN y - 1 ELSE y
        era == yy \div 400
        yoe == yy - era * 400
        mp == (m + 9) % 12
        doy == (153 * mp + 2) \div 5 + d - 1
        doe == yoe * 365 + yoe \div 4 - yoe \div 100 + doy
    IN  era * 146097 + doe - 719468

NaN == [valid |-> FALSE, time |-> 0]

\* new Date(s) for the strings the model handles: the date-only ISO forms
\* YYYY, YYYY-MM and YYYY-MM-DD denote midnight UTC; every other string the
\* model's inputs hold is no date to the engine (Invalid Date).
NewDate(s) ==
    LET n == Len(s)
        isY == n = 4 /\ AllDigits(s, 1, 4)
        isYM == n = 7 /\ AllDigits(s, 1, 4) /\ s[5] = "-" /\ AllDigits(s, 6, 7)
        isYMD == n = 10 /\ DashedDatePrefix(s)
        y == ParseNat(SubSeq(s, 1, 4))
        m == IF isY THEN 1 ELSE ParseNat(SubSeq(s, 6, 7))
        d == IF isYMD THEN ParseNat(SubSeq(s, 9, 10)) ELSE 1
    IN  IF (isY \/ isYM \/ isYMD) /\ m \in 1..12 /\ d \in 1..31
        THEN [valid |-> TRUE, time |-> DaysFromCivil(y, m, d) * MinutesPerDay]
        ELSE NaN

\* s.replace(/\./g, '-').replace(/\//g, '-')
IsoCandidate(s) == [i \in 1..Len(s) |-> IF s[i] \in {".", "/"} THEN "-" ELSE s[i]]

\* Lines 170-183; the result NaN stands for null.
parseDate(v) ==
    LET cleaned == Trim(v)
        direct == NewDate(IsoCandidate(cleaned))
        alt == NewDate(SubSeq(cleaned, 1, 4) \o <<"-">> \o SubSeq(cleaned, 5, 6)
                       \o <<"-">> \o SubSeq(cleaned, 7, 8))
    IN  IF direct.valid THEN direct
        ELSE IF Len(cleaned) = 8 /\ AllDigits(cleaned, 1, 8) /\ alt.valid THEN alt
        ELSE NaN

\* Lines 185-200: TEXT[l].today and TEXT[l][unit](n).
TEXT_today(l) == IF l = "en" THEN <<"T", "o", "d", "a", "y">> ELSE <<"U+C624", "U+B298">>

TEXT(l, unit, n) ==
    IF l = "en"
    THEN Decimal(n) \o (CASE unit = "day" -> <<" ", "d", "a", "y", "s", " ", "a", "g", "o">>
                          [] unit = "week" -> <<" ", "w", "e", "e", "k", "s", " ", "a", "g", "o">>
                          [] unit = "month" -> <<" ", "m", "o", "n", "t", "h", "s", " ", "a", "g", "o">>
                          [] unit = "year" -> <<" ", "y", "e", "a", "r", "s", " ", "a", "g", "o">>)
    ELSE Decimal(n) \o (CASE unit = "day" -> <<"U+C77C", " ", "U+C804">>
                          [] unit = "week" -> <<"U+C8FC", " ", "U+C804">>
                          [] unit = "month" -> <<"U+B2EC", " ", "U+C804">>
                          [] unit = "year" -> <<"U+B144", " ", "U+C804">>)

\* Line 203: (document.documentElement.lang || 'ko').startsWith('en') ? 'en' : 'ko'
ActiveLocale(pageLang) ==
    LET l == IF pageLang = <<>> THEN <<"k", "o">> ELSE pageLang
    IN  IF At(l, 1, <<"e", "n">>) THEN "en" ELSE "ko"

\* Lines 202-206.
relative(n, unit, pageLang) == TEXT(ActiveLocale(pageLang), unit, n)

\* The local calendar day (as a day number) of instant t in a zone tz minutes
\* east of UTC: getFullYear/getMonth/getDate.
LocalDay(t, tz) == (t + tz) \div MinutesPerDay

\* new Date(y, m, d) for local day number day: that day's local midnight.
LocalMidnight(day, tz) == day * MinutesPerDay - tz

\* Lines 155-159.
DiffDays(parsed, day, tz) ==
    LET startOfToday == LocalMidnight(day, tz)
        target == LocalMidnight(LocalDay(parsed.time, tz), tz)
        diffMs == startOfToday - target
    IN  diffMs \div MinutesPerDay

\* Lines 151-168.
formatRelativeDate(v, day, tz, pageLang) ==
    LET parsed == parseDate(v)
        diffDays == DiffDays(parsed, day, tz)
        weeks == diffDays \div 7
        months == diffDays \div 30
        years == diffDays \div 365
    IN  IF v = <<>> THEN <<>>
        ELSE IF ~parsed.valid THEN v
        ELSE IF diffDays <= 0 THEN <<"U+C624", "U+B298">>
        ELSE IF diffDays < 7 THEN relative(diffDays, "day", pageLang)
        ELSE IF weeks < 4 THEN relative(weeks, "week", pageLang)
        ELSE IF months < 12 THEN relative(months, "month", pageLang)
        ELSE relative(years, "year", pageLang)

\* The dates the formatter is given, in four notations, and two strings
\* that are no dates.
Years == {2023, 2024, 2025}
Months == 1..12
DaysOfMonth == {1, 2, 15, 28}

DateString(y, m, d, sep) ==
    Padded(y, 4) \o sep \o Padded(m, 2) \o sep \o Padded(d, 2)

DateValues ==
    {DateString(y, m, d, sep) :
        y \in Years, m \in Months, d \in DaysOfMonth, sep \in {<<"-">>, <<".">>, <<"/">>, <<>>}}
    \cup {<<>>, <<"s", "o", "o", "n">>}

PageLangs == {<<>>, <<"k", "o">>, <<"e", "n">>, <<"e", "n", "-", "U", "$">>, <<"f", "r">>}

\* Zone offsets in minutes east of UTC.
ZoneOffsets == {-300, 0, 540}

\* The first local day "today" ranges over (2024-12-28), and how many days
\* past it today may be.
FirstToday == DaysFromCivil(2024, 12, 28)
MaxTodayShift == 1

IdleRelDate ==
    /\ lang = <<>>
    /\ tzMinutes = 0
    /\ today = 0
    /\ value = <<>>
    /\ phrase = <<>>
    /\ dpc = "idle"

\* renderList, line 134: date.textContent = formatRelativeDate(review.date)
FormatDate ==
    /\ dpc = "start"
    /\ phrase' = formatRelativeDate(value, today, tzMinutes, lang)
    /\ dpc' = "done"
    /\ UNCHANGED <<lang, tzMinutes, today, value>>
    /\ UNCHANGED <<catVars, mdVars, fmVars, fnVars>>

----------------------------------------------------------------------------
(* Front matter (list view lines 74-87, detail view lines 241-262)         *)

\* The position of the "\n---" that closes the match of
\* /^---\n([\s\S]*?)\n---/ in t, 0 when the expression does not match: the
\* lazy group ends at the first "\n---" at or after the group's start.
FrontMatterClose(t) == IF At(t, 1, <<"-", "-", "-", "\n">>) THEN Find(t, 5, <<"\n", "-", "-", "-">>) ELSE 0

\* match[1] of that expression.
FrontMatterGroup(t) == SubSeq(t, 5, FrontMatterClose(t) - 1)

\* rawValue.replace(/^['"]|['"]$/g, ''), lines 83 and 258: a leading quote
\* goes and a trailing quote goes, each on its own.
StripQuotes(raw) ==
    LET q == {"'", "\""}
        s1 == IF raw # <<>> /\ raw[1] \in q THEN Tail(raw) ELSE raw
    IN  IF s1 # <<>> /\ s1[Len(s1)] \in q THEN SubSeq(s1, 1, Len(s1) - 1) ELSE s1

\* An object without properties.
EmptyObject == [k \in {} |-> <<>>]

\* obj.key, with '' standing for undefined (both are falsy where it is read).
Get(obj, key) == IF key \in DOMAIN obj THEN obj[key] ELSE <<>>

\* The reducer of lines 77-86 and 252-261: acc after one line.
ReduceLine(acc, line) ==
    LET separatorIndex == IndexOf(line, ":")
        key == Trim(SubSeq(line, 1, separatorIndex - 1))
        rawValue == Trim(From(line, separatorIndex + 1))
    IN  IF separatorIndex = 0 THEN acc
        ELSE IF key = <<>> THEN acc
        ELSE (key :> StripQuotes(rawValue)) @@ acc

RECURSIVE ReduceLines(_)
\* ls.reduce(reducer, {})
ReduceLines(ls) ==
    IF ls = <<>> THEN EmptyObject
    ELSE ReduceLine(ReduceLines(SubSeq(ls, 1, Len(ls) - 1)), ls[Len(ls)])

\* List view, lines 74-87.
parseFrontMatter(t) ==
    IF FrontMatterClose(t) = 0 THEN EmptyObject
    ELSE ReduceLines(SplitOn(FrontMatterGroup(t), "\n"))

\* Detail view, lines 241-248: /^---\n([\s\S]*?)\n---\n?/
splitFrontMatter(t) ==
    LET close == FrontMatterClose(t)
        matchLength == IF At(t, close + 4, <<"\n">>) THEN close + 4 ELSE close + 3
    IN  IF close = 0 THEN [frontmatter |-> <<>>, body |-> t]
        ELSE [frontmatter |-> FrontMatterGroup(t), body |-> From(t, matchLength + 1)]

\* Detail view, lines 250-262.
parseFrontMatter_detail(block) ==
    IF block = <<>> THEN EmptyObject ELSE ReduceLines(SplitOn(block, "\n"))

\* The lines documents are built from.
FrontLines ==
    {<<"-", "-", "-">>, <<"-", "-", "-", "-">>, <<"t", "i", "t", "l", "e", ":", " ", "\"", "A", "\"">>, <<"t", "i", "t", "l", "e", ":", " ", "\"", "B">>, <<"d", "a", "t", "e", ":", " ", "'", "c", "\"">>, <<" ", "k", " ", ":", " ", "v", " ">>,
     <<"q", ":", "'">>, <<"n", "o", "t", "e">>, <<>>}

\* The largest number of lines in a document.
MaxFrontLines == 4

Documents == {Join(q, <<"\n">>) : q \in SeqsUpTo(FrontLines, 1, MaxFrontLines)}

IdleFront ==
    /\ text = <<>>
    /\ split = [frontmatter |-> <<>>, body |-> <<>>]
    /\ metadata = EmptyObject
    /\ listMetadata = EmptyObject
    /\ fpc = "idle"
    /\ lfpc = "idle"

\* initReviewPage, lines 219-221: an empty text ends the page load before
\* the split (if (!text) return), so nothing is split, parsed or rendered.
SplitDocument ==
    /\ fpc = "fetched"
    /\ text # <<>>
    /\ split' = splitFrontMatter(text)
    /\ fpc' = "split"
    /\ UNCHANGED <<text, metadata, listMetadata, lfpc>>
    /\ UNCHANGED <<catVars, mdVars, fnVars, rdVars>>

\* initReviewPage, line 222.
ParseMetadata ==
    /\ fpc = "split"
    /\ metadata' = parseFrontMatter_detail(split.frontmatter)
    /\ fpc' = "parsed"
    /\ UNCHANGED <<text, split, listMetadata, lfpc>>
    /\ UNCHANGED <<catVars, mdVars, fnVars, rdVars>>

\* fetchReviewMetadata, line 59.
ParseListMetadata ==
    /\ lfpc = "fetched"
    /\ listMetadata' = parseFrontMatter(text)
    /\ lfpc' = "parsed"
    /\ UNCHANGED <<text, split, metadata, fpc>>
    /\ UNCHANGED <<catVars, mdVars, fnVars, rdVars>>

----------------------------------------------------------------------------
(* markdownToHtml (detail view, lines 290-376)                             *)

\* s.replace(/c/g, r) for a character c.
ReplaceAll(s, c, r) == Concat([i \in 1..Len(s) |-> IF s[i] = c THEN r ELSE <<s[i]>>])

\* Lines 371-376.
escapeHtml(str) ==
    ReplaceAll(ReplaceAll(ReplaceAll(str, "&", <<"&", "a", "m", "p", ";">>), "<", <<"&", "l", "t", ";">>), ">", <<"&", "g", "t", ";">>)

\* Where the match of /d(.+?)d/ that starts at p ends (the position of the
\* closing d), 0 when there is no match at p: the lazy group takes at least
\* one character and stops at the first d after it; it takes no line
\* terminator.
EmphasisClose(s, p, d) ==
    LET q == Find(s, p + Len(d) + 1, d)
    IN  IF At(s, p, d) /\ q # 0 /\ \A i \in (p + Len(d))..(q - 1) : s[i] \notin LineTerminators
        THEN q
        ELSE 0

RECURSIVE ReplaceEmphasis(_, _, _, _)
\* s.replace(/d(.+?)d/g, open + '$1' + close)
ReplaceEmphasis(s, d, open, close) ==
    IF \E p \in 1..Len(s) : EmphasisClose(s, p, d) # 0
    THEN LET p == CHOOSE i \in 1..Len(s) :
                      /\ EmphasisClose(s, i, d) # 0
                      /\ \A j \in 1..(i - 1) : EmphasisClose(s, j, d) = 0
             q == EmphasisClose(s, p, d)
         IN  SubSeq(s, 1, p - 1) \o open \o SubSeq(s, p + Len(d), q - 1) \o close
             \o ReplaceEmphasis(From(s, q + Len(d)), d, open, close)
    ELSE s

\* Where the match of /`([^`]+)`/ that starts at p ends, 0 when there is no
\* match at p: the next backtick, which must not be the next character.
CodeSpanClose(s, p) ==
    LET q == Find(s, p + 1, <<"U+0060">>)
    IN  IF At(s, p, <<"U+0060">>) /\ q >= p + 2 THEN q ELSE 0

RECURSIVE ReplaceCodeSpans(_)
\* s.replace(/`([^`]+)`/g, '<code>$1</code>')
ReplaceCodeSpans(s) ==
    IF \E p \in 1..Len(s) : CodeSpanClose(s, p) # 0
    THEN LET p == CHOOSE i \in 1..Len(s) :
                      /\ CodeSpanClose(s, i) # 0
                      /\ \A j \in 1..(i - 1) : CodeSpanClose(s, j) = 0
             q == CodeSpanClose(s, p)
         IN  SubSeq(s, 1, p - 1) \o <<"<", "c", "o", "d", "e", ">">> \o SubSeq(s, p + 1, q - 1) \o <<"<", "/", "c", "o", "d", "e", ">">>
             \o ReplaceCodeSpans(From(s, q + 1))
    ELSE s

\* Lines 363-367: the markup substitutions, in the source's order.
InlineMarkup(s) ==
    LET r1 == ReplaceEmphasis(s, <<"*", "*">>, <<"<", "s", "t", "r", "o", "n", "g", ">">>, <<"<", "/", "s", "t", "r", "o", "n", "g", ">">>)
        r2 == ReplaceEmphasis(r1, <<"_", "_">>, <<"<", "s", "t", "r", "o", "n", "g", ">">>, <<"<", "/", "s", "t", "r", "o", "n", "g", ">">>)
        r3 == ReplaceEmphasis(r2, <<"*">>, <<"<", "e", "m", ">">>, <<"<", "/", "e", "m", ">">>)
        r4 == ReplaceEmphasis(r3, <<"_">>, <<"<", "e", "m", ">">>, <<"<", "/", "e", "m", ">">>)
    IN  ReplaceCodeSpans(r4)

\* inlineMarkdown without its first step.
inlineMarkdown_unescaped(t) == InlineMarkup(t)

\* Lines 361-369.
inlineMarkdown(t) == InlineMarkup(escapeHtml(t))

\* rawLine.replace(/\r$/, '')
StripCR(s) == IF s # <<>> /\ s[Len(s)] = "\r" THEN SubSeq(s, 1, Len(s) - 1) ELSE s

\* The length of the run of characters of S that s starts with at position p.
RECURSIVE RunLength(_, _, _)
RunLength(s, p, S) == IF p <= Len(s) /\ s[p] \in S THEN 1 + RunLength(s, p + 1, S) ELSE 0

NoLineTerminator(s) == \A i \in 1..Len(s) : s[i] \notin LineTerminators

\* /^```/.test(line)
IsFence(line) == At(line, 1, <<"U+0060", "U+0060", "U+0060">>)

\* line.match(/^(#{1,6})\s+(.*)$/): the level, 0 when there is no match.
HeadingLevel(line) ==
    LET h == RunLength(line, 1, {"#"})
        w == RunLength(line, h + 1, WhiteSpace)
    IN  IF h \in 1..6 /\ w >= 1 /\ NoLineTerminator(From(line, h + w + 1)) THEN h ELSE 0

\* headingMatch[2]
HeadingText(line) ==
    LET h == RunLength(line, 1, {"#"})
    IN  From(line, h + RunLength(line, h + 1, WhiteSpace) + 1)

\* line.match(/^[-*+]\s+(.*)$/)
IsListItem(line) ==
    /\ line # <<>>
    /\ line[1] \in {"-", "*", "+"}
    /\ RunLength(line, 2, WhiteSpace) >= 1
    /\ NoLineTerminator(From(line, RunLength(line, 2, WhiteSpace) + 2))

\* listMatch[1]
ListItemText(line) == From(line, RunLength(line, 2, WhiteSpace) + 2)

\* !line.trim()
IsBlank(line) == Trim(line) = <<>>

\* /^>/.test(line)
IsQuote(line) == At(line, 1, <<">">>)

\* line.replace(/^>\s?/, '')
QuoteText(line) ==
    IF Len(line) >= 2 /\ line[2] \in WhiteSpace THEN From(line, 3) ELSE From(line, 2)

\* The block flushCode pushes, line 299.
CodeBlock(ls) == <<"<", "p", "r", "e", ">", "<", "c", "o", "d", "e", ">">> \o escapeHtml(Join(ls, <<"\n">>)) \o <<"<", "/", "c", "o", "d", "e", ">", "<", "/", "p", "r", "e", ">">>

\* The block flushList pushes, lines 306-307.
ListBlock(items) ==
    <<"<", "u", "l", ">">> \o Concat([i \in 1..Len(items) |-> <<"<", "l", "i", ">">> \o items[i] \o <<"<", "/", "l", "i", ">">>]) \o <<"<", "/", "u", "l", ">">>

\* Line 332.
HeadingBlock(level, t) ==
    <<"<", "h">> \o Decimal(level) \o <<">">> \o inlineMarkdown(t) \o <<"<", "/", "h">> \o Decimal(level) \o <<">">>

\* Line 349.
QuoteBlock(line) == <<"<", "b", "l", "o", "c", "k", "q", "u", "o", "t", "e", ">">> \o inlineMarkdown(QuoteText(line)) \o <<"<", "/", "b", "l", "o", "c", "k", "q", "u", "o", "t", "e", ">">>

\* Line 353.
ParagraphBlock(line) == <<"<", "p", ">">> \o inlineMarkdown(line) \o <<"<", "/", "p", ">">>

\* html after flushList(), lines 304-309.
FlushedList(h, buffer) == IF buffer = <<>> THEN h ELSE Append(h, ListBlock(buffer))

\* html after flushCode(), lines 297-302.
FlushedCode(h, open, ls) == IF open THEN Append(h, CodeBlock(ls)) ELSE h

\* flushCode() left out at the end of input.
FinalBlocks_nocode(h, buffer, open, ls) == FlushedList(h, buffer)

\* html after lines 356-357: flushList(), then flushCode().
FinalBlocks(h, buffer, open, ls) == FlushedCode(FlushedList(h, buffer), open, ls)

\* The history that goes with FlushedList and FlushedCode.
FlushedOrigin(o, pending, from) == IF pending THEN Append(o, from) ELSE o

\* The lines bodies are built from.
MdLines ==
    {<<"-", " ", "a">>, <<"*", " ", "_", "i", "_", " ", "U+0060", "c", "U+0060">>, <<"U+0060", "U+0060", "U+0060">>, <<"U+0060", "U+0060", "U+0060", "j", "s">>, <<"x", " ", "<", " ", "y">>, <<>>, <<"#", "#", " ", "*", "*", "h", "*", "*">>, <<">", " ", "q", " ", "&", " ", "a">>,
     <<"<", "b", ">", "*", "*", "x", "*", "*", "<", "/", "b", ">">>}

\* The largest number of lines in a body.
MaxMdLines == 3

\* The characters one-line bodies are built from, and their largest length.
InlineAlphabet == {"*", "_", "U+0060", "<", ">", "&", "a", " "}

MaxInlineLen == 4

Bodies ==
    {Join(q, <<"\n">>) : q \in SeqsUpTo(MdLines, 1, MaxMdLines)}
    \cup SeqsUpTo(InlineAlphabet, 1, MaxInlineLen)

IdleMarkdown ==
    /\ markdown = <<>>
    /\ lines = <<>>
    /\ pos = 0
    /\ html = <<>>
    /\ inCode = FALSE
    /\ codeLines = <<>>
    /\ listBuffer = <<>>
    /\ rendered = <<>>
    /\ mpc = "idle"
    /\ origin = <<>>
    /\ listOrigin = {}
    /\ codeOrigin = {}

\* The line the forEach callback is called with, after line 312.
line == StripCR(lines[pos])

AtLine == mpc = "lines" /\ pos <= Len(lines)

\* Lines 291-295.
StartRender ==
    /\ mpc = "start"
    /\ lines' = SplitOn(markdown, "\n")
    /\ pos' = 1
    /\ html' = <<>>
    /\ inCode' = FALSE
    /\ codeLines' = <<>>
    /\ listBuffer' = <<>>
    /\ mpc' = "lines"
    /\ UNCHANGED <<markdown, rendered, origin, listOrigin, codeOrigin>>
    /\ UNCHANGED <<catVars, fmVars, fnVars, rdVars>>

\* Lines 314-321, in a code block: the fence closes it.
CloseFence ==
    /\ AtLine /\ IsFence(line) /\ inCode
    /\ html' = FlushedCode(html, inCode, codeLines)
    /\ origin' = FlushedOrigin(origin, inCode, codeOrigin \cup {pos})
    /\ inCode' = FALSE
    /\ codeLines' = <<>>
    /\ codeOrigin' = {}
    /\ pos' = pos + 1
    /\ UNCHANGED <<markdown, lines, listBuffer, rendered, mpc, listOrigin>>
    /\ UNCHANGED <<catVars, fmVars, fnVars, rdVars>>

\* Lines 314-321, outside a code block: the fence opens one.
OpenFence ==
    /\ AtLine /\ IsFence(line) /\ ~inCode
    /\ inCode' = TRUE
    /\ codeOrigin' = {pos}
    /\ pos' = pos + 1
    /\ UNCHANGED <<markdown, lines, html, codeLines, listBuffer, rendered, mpc,
                   origin, listOrigin>>
    /\ UNCHANGED <<catVars, fmVars, fnVars, rdVars>>

\* Lines 323-326.
CodeLine ==
    /\ AtLine /\ ~IsFence(line) /\ inCode
    /\ codeLines' = Append(codeLines, line)
    /\ codeOrigin' = codeOrigin \cup {pos}
    /\ pos' = pos + 1
    /\ UNCHANGED <<markdown, lines, html, inCode, listBuffer, rendered, mpc,
                   origin, listOrigin>>
    /\ UNCHANGED <<catVars, fmVars, fnVars, rdVars>>

\* Lines 328-334.
HeadingLine ==
    /\ AtLine /\ ~IsFence(line) /\ ~inCode
    /\ HeadingLevel(line) # 0
    /\ html' = Append(FlushedList(html, listBuffer),
                      HeadingBlock(HeadingLevel(line), HeadingText(line)))
    /\ origin' = Append(FlushedOrigin(origin, listBuffer # <<>>, listOrigin), {pos})
    /\ listBuffer' = <<>>
    /\ listOrigin' = {}
    /\ pos' = pos + 1
    /\ UNCHANGED <<markdown, lines, inCode, codeLines, rendered, mpc, codeOrigin>>
    /\ UNCHANGED <<catVars, fmVars, fnVars, rdVars>>

\* Lines 336-340.
ListLine ==
    /\ AtLine /\ ~IsFence(line) /\ ~inCode
    /\ HeadingLevel(line) = 0
    /\ IsListItem(line)
    /\ listBuffer' = Append(listBuffer, inlineMarkdown(ListItemText(line)))
    /\ listOrigin' = listOrigin \cup {pos}
    /\ pos' = pos + 1
    /\ UNCHANGED <<markdown, lines, html, inCode, codeLines, rendered, mpc,
                   origin, codeOrigin>>
    /\ UNCHANGED <<catVars, fmVars, fnVars, rdVars>>

\* Lines 341-353: any other line flushes the list, then a blank line emits
\* nothing, a line that starts with ">" a blockquote, any other a paragraph.
OtherLine ==
    /\ AtLine /\ ~IsFence(line) /\ ~inCode
    /\ HeadingLevel(line) = 0
    /\ ~IsListItem(line)
    /\ LET flushed == FlushedList(html, listBuffer)
           flushedOrigin == FlushedOrigin(origin, listBuffer # <<>>, listOrigin)
       IN  \/ /\ IsBlank(line)
              /\ html' = flushed
              /\ origin' = flushedOrigin
           \/ /\ ~IsBlank(line) /\ IsQuote(line)
              /\ html' = Append(flushed, QuoteBlock(line))
              /\ origin' = Append(flushedOrigin, {pos})
           \/ /\ ~IsBlank(line) /\ ~IsQuote(line)
              /\ html' = Append(flushed, ParagraphBlock(line))
              /\ origin' = Append(flushedOrigin, {pos})
    /\ listBuffer' = <<>>
    /\ listOrigin' = {}
    /\ pos' = pos + 1
    /\ UNCHANGED <<markdown, lines, inCode, codeLines, rendered, mpc, codeOrigin>>
    /\ UNCHANGED <<catVars, fmVars, fnVars, rdVars>>

\* Lines 356-358, after the last line.
FinishRender ==
    /\ mpc = "lines" /\ pos > Len(lines)
    /\ LET final == FinalBlocks(html, listBuffer, inCode, codeLines)
       IN  /\ html' = final
           /\ rendered' = Join(final, <<"\n">>)
    /\ origin' = FlushedOrigin(FlushedOrigin(origin, listBuffer # <<>>, listOrigin),
                               inCode, codeOrigin)
    /\ listBuffer' = <<>>
    /\ inCode' = FALSE
    /\ codeLines' = IF inCode THEN <<>> ELSE codeLines
    /\ listOrigin' = {}
    /\ codeOrigin' = {}
    /\ mpc' = "done"
    /\ UNCHANGED <<markdown, lines, pos>>
    /\ UNCHANGED <<catVars, fmVars, fnVars, rdVars>>

----------------------------------------------------------------------------
(* loadReviews (list view, lines 11-16 and 53-72)                          *)

\* The characters encodeURIComponent leaves as they are.
Unreserved ==
    {"a", "b", "c", "d", "e", "f", "g", "h", "i", "j", "k", "l", "m", "n", "o", "p", "q",
     "r", "s", "t", "u", "v", "w", "x", "y", "z",
     "A", "B", "C", "D", "E", "F", "G", "H", "I", "J", "K", "L", "M", "N", "O", "P", "Q",
     "R", "S", "T", "U", "V", "W", "X", "Y", "Z"}
    \cup Digits \cup {"-", "_", ".", "!", "~", "*", "'", "(", ")"}

\* encodeURIComponent(s), for the characters filenames of the model hold.
encodeURIComponent(s) ==
    Concat([i \in 1..Len(s) |->
               IF s[i] \in Unreserved THEN <<s[i]>>
               ELSE CASE s[i] = " " -> <<"%", "2", "0">>
                      [] s[i] = "%" -> <<"%", "2", "5">>])

\* The documents of the reviews/ directory: what a successful fetch of each
\* file returns.
ReviewFiles ==
    {<<"2", "0", "2", "4", "-", "0", "1", "-", "0", "1", "_", "a", ".", "m", "d">>, <<"2", "0", "2", "4", "-", "0", "3", "-", "0", "1", "-", "b", ".", "m", "d">>, <<"2", "0", "2", "4", "0", "2", "0", "1", "-", "c", ".", "m", "d">>, <<"n", "o", "t", "e", "s", ".", "m", "d">>,
     <<"d", "r", "a", "f", "t", "_", "x", ".", "m", "d">>, <<"m", "e", "m", "o", ".", "m", "d">>}

ReviewText(name) ==
    CASE name = <<"2", "0", "2", "4", "-", "0", "1", "-", "0", "1", "_", "a", ".", "m", "d">> -> <<"f", "i", "r", "s", "t", " ", "r", "e", "v", "i", "e", "w">>
      [] name = <<"2", "0", "2", "4", "-", "0", "3", "-", "0", "1", "-", "b", ".", "m", "d">> -> <<"#", " ", "B", "\n", "-", " ", "i", "t", "e", "m">>
      [] name = <<"2", "0", "2", "4", "0", "2", "0", "1", "-", "c", ".", "m", "d">> -> <<"-", "-", "-", "\n", "t", "i", "t", "l", "e", ":", " ", "\"", "C", "\"", "\n", "d", "a", "t", "e", ":", " ", "2", "0", "2", "4", "-", "0", "3", "-", "0", "1", "\n", "-", "-", "-", "\n", "b", "o", "d", "y">>
      [] name = <<"n", "o", "t", "e", "s", ".", "m", "d">> -> <<"n", "o", " ", "d", "a", "t", "e", " ", "a", "n", "y", "w", "h", "e", "r", "e">>
      [] name = <<"d", "r", "a", "f", "t", "_", "x", ".", "m", "d">> -> <<"-", "-", "-", "\n", "d", "a", "t", "e", ":", " ", "s", "o", "o", "n", "\n", "-", "-", "-", "\n">>
      [] name = <<"m", "e", "m", "o", ".", "m", "d">> -> <<"-", "-", "-", "\n", "t", "i", "t", "l", "e", ":", " ", "M", "e", "m", "o", "\n", "d", "a", "t", "e", ":", " ", "l", "a", "t", "e", "r", "\n", "p", "e", "r", "m", "a", "l", "i", "n", "k", ":", " ", "m", "\n", "-", "-", "-", "\n">>

\* The largest number of files the directory listing names.
MaxFiles == 3

Null == [settled |-> "fulfilled", present |-> FALSE,
         title |-> <<>>, date |-> <<>>, url |-> <<>>]

Rejected == [settled |-> "rejected", present |-> FALSE,
             title |-> <<>>, date |-> <<>>, url |-> <<>>]

\* a || b for strings
Or(a, b) == IF a # <<>> THEN a ELSE b

\* Lines 59-62: the front-matter value merged with the filename's.
MergedTitle(name, t) ==
    Or(Get(parseFrontMatter(t), <<"t", "i", "t", "l", "e">>), deriveTitleFromFilename(name))

MergedDate(name, t) ==
    Or(Get(parseFrontMatter(t), <<"d", "a", "t", "e">>), deriveDateFromFilename(name))

MergedPermalink(name, t) ==
    Or(Get(parseFrontMatter(t), <<"p", "e", "r", "m", "a", "l", "i", "n", "k">>), derivePermalinkFromFilename(name))

\* Lines 58-68: what fetchReviewMetadata returns once the response is read.
ReadMetadata(name) ==
    LET t == ReviewText(name)
        title == MergedTitle(name, t)
        date == MergedDate(name, t)
        permalink == MergedPermalink(name, t)
    IN  IF title = <<>> \/ date = <<>> \/ permalink = <<>> THEN Null
        ELSE [settled |-> "fulfilled", present |-> TRUE,
              title |-> title, date |-> date,
              url |-> <<"r", "e", "v", "i", "e", "w", ".", "h", "t", "m", "l", "?", "f", "i", "l", "e", "=">> \o encodeURIComponent(name)]

\* fetchReviewMetadata without its try/catch: a thrown error rejects.
fetchReviewMetadata_nocatch(name, fetched) ==
    IF name = <<>> THEN Null
    ELSE IF fetched = "throw" THEN Rejected
    ELSE IF fetched = "notok" THEN Null
    ELSE ReadMetadata(name)

\* Lines 53-72: the value the promise settles with, given how the fetch
\* of the file ended ("ok", "notok": a response that is not ok, "throw").
fetchReviewMetadata(name, fetched) ==
    IF name = <<>> THEN Null
    ELSE IF fetched = "throw" THEN Null
    ELSE IF fetched = "notok" THEN Null
    ELSE ReadMetadata(name)

\* The comparator of line 15 as the sort reads it: new Date(b.date) -
\* new Date(a.date), and 0 where that is NaN.
Compare(a, b) ==
    LET da == NewDate(a.date)
        db == NewDate(b.date)
    IN  IF da.valid /\ db.valid THEN db.time - da.time ELSE 0

(* Array.prototype.sort, line 15.  With a consistent comparator the result *)
(* is the one stable sort of the array, computed here as V8 computes it    *)
(* below 64 elements: one run detection, then a binary insertion sort.     *)
(* With a comparator that is not consistent the order is                   *)
(* implementation-defined: any permutation of the array (SortOutcomes).    *)

RECURSIVE RunLengthFrom(_, _, _)
\* The length of the run s starts with, given the run reaches position n.
RunLengthFrom(s, descending, n) ==
    IF n = Len(s) THEN n
    ELSE LET order == Compare(s[n + 1], s[n])
         IN  IF (descending /\ order >= 0) \/ (~descending /\ order < 0) THEN n
             ELSE RunLengthFrom(s, descending, n + 1)

Reverse(s) == [i \in 1..Len(s) |-> s[Len(s) + 1 - i]]

RECURSIVE InsertionPoint(_, _, _, _)
\* The binary search of the insertion sort, on 0-based positions.
InsertionPoint(s, pivot, left, right) ==
    IF left >= right THEN left
    ELSE LET mid == left + (right - left) \div 2
         IN  IF Compare(pivot, s[mid + 1]) < 0
             THEN InsertionPoint(s, pivot, left, mid)
             ELSE InsertionPoint(s, pivot, mid + 1, right)

RECURSIVE BinaryInsertionSort(_, _)
\* s with its elements from 0-based position start on inserted one by one.
BinaryInsertionSort(s, start) ==
    IF start >= Len(s) THEN s
    ELSE LET pivot == s[start + 1]
             left == InsertionPoint(s, pivot, 0, start)
         IN  BinaryInsertionSort(
                 SubSeq(s, 1, left) \o <<pivot>> \o SubSeq(s, left + 1, start)
                     \o SubSeq(s, start + 2, Len(s)),
                 start + 1)

\* s.sort((a, b) => new Date(b.date) - new Date(a.date))
Sort(s) ==
    IF Len(s) < 2 THEN s
    ELSE LET descending == Compare(s[2], s[1]) < 0
             run == RunLengthFrom(s, descending, 2)
             made == IF descending
                     THEN Reverse(SubSeq(s, 1, run)) \o SubSeq(s, run + 1, Len(s))
                     ELSE s
         IN  BinaryInsertionSort(made, run)

\* Whether the comparator is a consistent comparator for the records of s:
\* it reads an unparseable date as equal to every date, which is consistent
\* only when no date is unparseable or all parseable dates are equal.
Consistent(s) ==
    \/ \A i \in 1..Len(s) : NewDate(s[i].date).valid
    \/ \A i, j \in 1..Len(s) :
           (NewDate(s[i].date).valid /\ NewDate(s[j].date).valid)
               => NewDate(s[i].date).time = NewDate(s[j].date).time

\* The arrays s.sort(...) may leave.
SortOutcomes(s) ==
    IF Consistent(s) THEN {Sort(s)}
    ELSE {[i \in 1..Len(s) |-> s[p[i]]] :
             p \in {q \in [1..Len(s) -> 1..Len(s)] :
                       \A i, j \in 1..Len(s) : i # j => q[i] # q[j]}}

\* metadata.filter(Boolean), as records of the catalog.
Present(rs) ==
    LET IsPresent(r) == r.present
        kept == SelectSeq(rs, IsPresent)
    IN  [i \in 1..Len(kept) |->
            [title |-> kept[i].title, date |-> kept[i].date, url |-> kept[i].url]]

IdleCatalog ==
    /\ files = <<>>
    /\ outcome = <<>>
    /\ results = <<>>
    /\ catalog = <<>>
    /\ lpc = "idle"

\* Sequences of distinct files: the listing is deduplicated (line 50).
Listings ==
    {q \in SeqsUpTo(ReviewFiles, 0, MaxFiles) :
        \A i, j \in 1..Len(q) : i # j => q[i] # q[j]}

\* Lines 12-14: the listing arrives; without files loadReviews returns [],
\* otherwise one fetch per file is started.
Discover ==
    /\ lpc = "start"
    /\ \E q \in Listings :
        /\ files' = q
        /\ outcome' = [i \in 1..Len(q) |-> "pending"]
        /\ results' = [i \in 1..Len(q) |-> Null]
        /\ lpc' = IF Len(q) = 0 THEN "done" ELSE "fetching"
    /\ catalog' = <<>>
    /\ UNCHANGED <<mdVars, fmVars, fnVars, rdVars>>

\* One fetchReviewMetadata settles; Promise.all (line 14) rejects, and with
\* it loadReviews, as soon as one of its promises rejects.
FetchSettles ==
    /\ lpc = "fetching"
    /\ \E i \in 1..Len(files), fetched \in {"ok", "notok", "throw"} :
        /\ outcome[i] = "pending"
        /\ outcome' = [outcome EXCEPT ![i] = fetched]
        /\ results' = [results EXCEPT ![i] = fetchReviewMetadata(files[i], fetched)]
        /\ lpc' = IF fetchReviewMetadata(files[i], fetched).settled = "rejected"
                  THEN "failed"
                  ELSE lpc
    /\ UNCHANGED <<files, catalog>>
    /\ UNCHANGED <<mdVars, fmVars, fnVars, rdVars>>

\* Lines 14-15: every promise has fulfilled; filter and sort.
BuildCatalog ==
    /\ lpc = "fetching"
    /\ \A i \in 1..Len(files) : outcome[i] # "pending"
    /\ catalog' \in SortOutcomes(Present(results))
    /\ lpc' = "done"
    /\ UNCHANGED <<files, outcome, results>>
    /\ UNCHANGED <<mdVars, fmVars, fnVars, rdVars>>

----------------------------------------------------------------------------
(* Claims about loadReviews (SpecCatalog)                                  *)

\* The positions of the listing whose document is to be in the catalog: its
\* fetch succeeded, and its title, date and permalink are all non-empty
\* after the front-matter value is merged with the filename's.
Materialized(name) ==
    /\ MergedTitle(name, ReviewText(name)) # <<>>
    /\ MergedDate(name, ReviewText(name)) # <<>>
    /\ MergedPermalink(name, ReviewText(name)) # <<>>

GoodPositions == {i \in 1..Len(files) : outcome[i] = "ok" /\ Materialized(files[i])}

ExpectedRecord(name) ==
    [title |-> MergedTitle(name, ReviewText(name)),
     date |-> MergedDate(name, ReviewText(name)),
     url |-> <<"r", "e", "v", "i", "e", "w", ".", "h", "t", "m", "l", "?", "f", "i", "l", "e", "=">> \o name]

\* C1: loadReviews never fails, whatever the fetches do and in whatever
\* order they settle, and the catalog it returns holds one record for each
\* document whose fetch succeeded and whose title, date and permalink are
\* non-empty after the merge, and no other record.
C1_CatalogHoldsExactlyTheGoodDocuments ==
    /\ lpc # "failed"
    /\ lpc = "done" =>
        /\ {catalog[k] : k \in 1..Len(catalog)} = {ExpectedRecord(files[i]) : i \in GoodPositions}
        /\ Len(catalog) = Cardinality(GoodPositions)

\* C1's case: loadReviews has returned a catalog although one fetch threw,
\* one response was not ok and one fetched document lacks a date, and the
\* catalog holds the one document left.
C1_Witness ==
    /\ lpc = "done"
    /\ \E i \in 1..Len(files) : outcome[i] = "throw"
    /\ \E i \in 1..Len(files) : outcome[i] = "ok" /\ ~Materialized(files[i])
    /\ Len(catalog) = 1

\* Code units in ascending order, for the comparison of date strings.
CodeOrder ==
    <<"-", "0", "1", "2", "3", "4", "5", "6", "7", "8", "9",
      "a", "b", "c", "d", "e", "f", "g", "h", "i", "j", "k", "l", "m", "n", "o", "p", "q",
      "r", "s", "t", "u", "v", "w", "x", "y", "z">>

Code(c) == CHOOSE k \in 1..Len(CodeOrder) : CodeOrder[k] = c

RECURSIVE LexLess(_, _)
\* a < b as JavaScript compares strings.
LexLess(a, b) ==
    IF b = <<>> THEN FALSE
    ELSE IF a = <<>> THEN TRUE
    ELSE IF a[1] # b[1] THEN Code(a[1]) < Code(b[1])
    ELSE LexLess(Tail(a), Tail(b))

Parseable(r) == NewDate(r.date).valid

IndexPermutations(n) == {p \in [1..n -> 1..n] : \A i, j \in 1..n : i # j => p[i] # p[j]}

\* C2: the catalog is newest first: of two records with parseable dates the
\* later comes first, records with unparseable dates are in the lexical
\* order of their date strings (one way or the other), and the order is the
\* same whatever order the documents were discovered in.
C2_NewestFirstWhateverTheDiscoveryOrder ==
    lpc = "done" =>
        /\ \A i, j \in 1..Len(catalog) :
               (i < j /\ Parseable(catalog[i]) /\ Parseable(catalog[j]))
                   => NewDate(catalog[i].date).time >= NewDate(catalog[j].date).time
        /\ \/ \A i, j \in 1..Len(catalog) :
                  (i < j /\ ~Parseable(catalog[i]) /\ ~Parseable(catalog[j]))
                      => ~LexLess(catalog[i].date, catalog[j].date)
           \/ \A i, j \in 1..Len(catalog) :
                  (i < j /\ ~Parseable(catalog[i]) /\ ~Parseable(catalog[j]))
                      => ~LexLess(catalog[j].date, catalog[i].date)
        /\ \A p \in IndexPermutations(Len(results)) :
               SortOutcomes(Present([i \in 1..Len(results) |-> results[p[i]]])) = {catalog}

----------------------------------------------------------------------------
(* Claims about markdownToHtml (SpecMarkdown)                              *)

\* C3: blocks are emitted in document order: a block all of whose source
\* lines precede all source lines of another block comes before it in the
\* output.
C3_BlocksInDocumentOrder ==
    mpc = "done" =>
        \A i, j \in 1..Len(html) :
            (\A a \in origin[i], b \in origin[j] : a < b) => i < j

\* The lines of the body as the renderer classifies them, from the body
\* alone.
InputLines == LET ls == SplitOn(markdown, "\n") IN [i \in 1..Len(ls) |-> StripCR(ls[i])]

FencesBefore(i) == Cardinality({k \in 1..(i - 1) : IsFence(InputLines[k])})

FenceCount == FencesBefore(Len(InputLines) + 1)

\* The fence of the last code block was never closed.
Unclosed == FenceCount % 2 = 1

OutsideCode(i) == ~IsFence(InputLines[i]) /\ FencesBefore(i) % 2 = 0

IsItemLine(i) ==
    OutsideCode(i) /\ HeadingLevel(InputLines[i]) = 0 /\ IsListItem(InputLines[i])

\* A line that ends the list before it.
IsFlusher(i) == OutsideCode(i) /\ ~IsItemLine(i)

ItemLines == {i \in 1..Len(InputLines) : IsItemLine(i)}

\* The item lines that start a list: no item line precedes them but across
\* a line that ends a list.
ListStarts ==
    {i \in ItemLines :
        \A k \in ItemLines : k < i => \E f \in (k + 1)..(i - 1) : IsFlusher(f)}

\* A list is still buffered after the last line.
PendingListAtEnd ==
    \E i \in ItemLines : \A f \in (i + 1)..Len(InputLines) : ~IsFlusher(f)

\* The lines after the last fence.
LastFence == CHOOSE k \in 1..Len(InputLines) :
                 IsFence(InputLines[k]) /\ \A m \in (k + 1)..Len(InputLines) : ~IsFence(InputLines[m])

Count(s, d) == Cardinality({p \in 1..Len(s) : At(s, p, d)})

\* C4: nothing buffered is lost at the end of input.  On return both
\* buffers are empty; every list item line has its <li> and every list its
\* <ul>; every opened code block is emitted, the last one also when its
\* fence was never closed, with the lines after its fence; a list pending at
\* the end is emitted before a code block pending at the end; the empty body
\* renders to the empty string.
C4_NothingBufferedIsLost ==
    mpc = "done" =>
        /\ listBuffer = <<>> /\ codeLines = <<>> /\ ~inCode
        /\ Count(rendered, <<"<", "l", "i", ">">>) = Cardinality(ItemLines)
        /\ Count(rendered, <<"<", "u", "l", ">">>) = Cardinality(ListStarts)
        /\ Count(rendered, <<"<", "p", "r", "e", ">", "<", "c", "o", "d", "e", ">">>) = (FenceCount + 1) \div 2
        /\ Unclosed =>
              html[Len(html)] =
                  <<"<", "p", "r", "e", ">", "<", "c", "o", "d", "e", ">">>
                  \o escapeHtml(Join(SubSeq(InputLines, LastFence + 1, Len(InputLines)), <<"\n">>))
                  \o <<"<", "/", "c", "o", "d", "e", ">", "<", "/", "p", "r", "e", ">">>
        /\ (PendingListAtEnd /\ Unclosed) => At(html[Len(html) - 1], 1, <<"<", "u", "l", ">">>)
        /\ (PendingListAtEnd /\ ~Unclosed) => At(html[Len(html)], 1, <<"<", "u", "l", ">">>)
        /\ markdown = <<>> => rendered = <<>>

\* C4's case: the input ended with a list still buffered and, after it, a
\* code block whose fence was never closed and that holds a line.
C4_Witness ==
    /\ mpc = "done"
    /\ PendingListAtEnd
    /\ Unclosed
    /\ LastFence < Len(InputLines)
    /\ Len(html) = 2

\* The tags the renderer writes.
RendererTags ==
    {<<"<", "p", ">">>, <<"<", "/", "p", ">">>, <<"<", "u", "l", ">">>, <<"<", "/", "u", "l", ">">>, <<"<", "l", "i", ">">>, <<"<", "/", "l", "i", ">">>, <<"<", "p", "r", "e", ">">>, <<"<", "/", "p", "r", "e", ">">>,
     <<"<", "c", "o", "d", "e", ">">>, <<"<", "/", "c", "o", "d", "e", ">">>, <<"<", "s", "t", "r", "o", "n", "g", ">">>, <<"<", "/", "s", "t", "r", "o", "n", "g", ">">>, <<"<", "e", "m", ">">>, <<"<", "/", "e", "m", ">">>,
     <<"<", "b", "l", "o", "c", "k", "q", "u", "o", "t", "e", ">">>, <<"<", "/", "b", "l", "o", "c", "k", "q", "u", "o", "t", "e", ">">>,
     <<"<", "h", "1", ">">>, <<"<", "h", "2", ">">>, <<"<", "h", "3", ">">>, <<"<", "h", "4", ">">>, <<"<", "h", "5", ">">>, <<"<", "h", "6", ">">>,
     <<"<", "/", "h", "1", ">">>, <<"<", "/", "h", "2", ">">>, <<"<", "/", "h", "3", ">">>, <<"<", "/", "h", "4", ">">>, <<"<", "/", "h", "5", ">">>, <<"<", "/", "h", "6", ">">>}

\* How often c occurs in the lines of the body that are rendered (a fence
\* line is not).
InputCount(c) ==
    Count(Concat([i \in 1..Len(InputLines) |->
                     IF IsFence(InputLines[i]) THEN <<>> ELSE InputLines[i]]), <<c>>)

\* The lines rendered as a blockquote, whose leading ">" is dropped.
QuoteLines ==
    {i \in 1..Len(InputLines) :
        /\ IsFlusher(i)
        /\ HeadingLevel(InputLines[i]) = 0
        /\ ~IsBlank(InputLines[i])
        /\ IsQuote(InputLines[i])}

\* C5: escaping precedes markup.  Every "<" of the output opens a tag of the
\* renderer and every ">" closes one; every "&" starts one of the three
\* entities; and each "&", "<", ">" of the input is in the output as its
\* entity, once.
C5_OnlyRendererTags ==
    mpc = "done" =>
        /\ \A p \in 1..Len(rendered) :
               rendered[p] = "<" => \E t \in RendererTags : At(rendered, p, t)
        /\ \A p \in 1..Len(rendered) :
               rendered[p] = ">" => \E t \in RendererTags : At(rendered, p - Len(t) + 1, t)
        /\ \A p \in 1..Len(rendered) :
               rendered[p] = "&" =>
                   \E e \in {<<"&", "a", "m", "p", ";">>, <<"&", "l", "t", ";">>, <<"&", "g", "t", ";">>} : At(rendered, p, e)
        /\ Count(rendered, <<"&", "a", "m", "p", ";">>) = InputCount("&")
        /\ Count(rendered, <<"&", "l", "t", ";">>) = InputCount("<")
        /\ Count(rendered, <<"&", "g", "t", ";">>) = InputCount(">") - Cardinality(QuoteLines)

\* C5's case: a body with "<" and ">" in inline text next to markup, and
\* in a code block.
C5_Witness ==
    /\ mpc = "done"
    /\ Count(rendered, <<"<", "s", "t", "r", "o", "n", "g", ">">>) > 0
    /\ Count(rendered, <<"<", "p", "r", "e", ">", "<", "c", "o", "d", "e", ">">>) > 0
    /\ Count(rendered, <<"&", "l", "t", ";">>) >= 3
    /\ Count(rendered, <<"&", "g", "t", ";">>) >= 2

----------------------------------------------------------------------------
(* Claims about the front matter (SpecFront)                               *)

TextLines == SplitOn(text, "\n")

\* The first line after the first that is exactly "---", 0 when none is.
ClosingLine ==
    IF \E k \in 2..Len(TextLines) : TextLines[k] = <<"-", "-", "-">>
    THEN CHOOSE k \in 2..Len(TextLines) :
             TextLines[k] = <<"-", "-", "-">> /\ \A m \in 2..(k - 1) : TextLines[m] # <<"-", "-", "-">>
    ELSE 0

\* C6: splitFrontMatter finds a front-matter block exactly when the first
\* line is exactly "---" and a later line is exactly "---": frontmatter is
\* then the lines between the two and body all that follows the closing
\* line; otherwise frontmatter is empty and body is the text.
C6_SplitsOnExactDelimiterLines ==
    fpc # "fetched" =>
        split = IF TextLines[1] = <<"-", "-", "-">> /\ ClosingLine # 0
                THEN [frontmatter |-> Join(SubSeq(TextLines, 2, ClosingLine - 1), <<"\n">>),
                      body |-> Join(SubSeq(TextLines, ClosingLine + 1, Len(TextLines)), <<"\n">>)]
                ELSE [frontmatter |-> <<>>, body |-> text]

\* A value with one matching pair of quotes removed, and unchanged when it
\* has no such pair.
WithoutMatchingQuotes(v) ==
    IF Len(v) >= 2 /\ v[1] \in {"'", "\""} /\ v[Len(v)] = v[1]
    THEN SubSeq(v, 2, Len(v) - 1)
    ELSE v

HasKey(l) == IndexOf(l, ":") # 0 /\ Trim(SubSeq(l, 1, IndexOf(l, ":") - 1)) # <<>>

KeyOf(l) == Trim(SubSeq(l, 1, IndexOf(l, ":") - 1))

\* Every key: value line of block that no later line overrides is stored
\* in obj with its trimmed value stripped of one matching pair of quotes.
StoredAsClaimed(block, obj) ==
    LET ls == SplitOn(block, "\n")
    IN  \A i \in 1..Len(ls) :
            (HasKey(ls[i]) /\ \A j \in (i + 1)..Len(ls) : HasKey(ls[j]) => KeyOf(ls[j]) # KeyOf(ls[i]))
                => Get(obj, KeyOf(ls[i]))
                       = WithoutMatchingQuotes(Trim(From(ls[i], IndexOf(ls[i], ":") + 1)))

\* C7: parseFrontMatter, in both views, strips quotes from a value only as
\* one matching pair; a value with a quote at one end only, or with
\* different quotes at its ends, is stored as it is.
C7_QuotesStrippedOnlyAsAPair ==
    /\ fpc = "parsed" => StoredAsClaimed(split.frontmatter, metadata)
    /\ (lfpc = "parsed" /\ FrontMatterClose(text) # 0)
           => StoredAsClaimed(FrontMatterGroup(text), listMetadata)

----------------------------------------------------------------------------
(* Claims about the filename inference (SpecFilename)                      *)

\* The title the claim gives a filename: the rest of a name of the form
\* <date><sep><rest>.md, the date dashed or compact (the suffix may be
\* missing); for any other name the name without its suffix and its first
\* "_"-delimited token, or the name without its suffix.
ClaimedTitle(name) ==
    LET base == StripMd(name)
        dashed == DashedDatePrefix(base) /\ Len(base) >= 12 /\ base[11] \in {"-", "_"}
        compact == Len(base) >= 10 /\ AllDigits(base, 1, 8) /\ base[9] \in {"-", "_"}
    IN  IF dashed THEN From(base, 12)
        ELSE IF compact THEN From(base, 10)
        ELSE Or(AfterFirstUnderscore(base), base)

\* C8: the list view derives the claimed title from every filename, and
\* the detail view derives the same title as the list view.
C8_TitleFromDatedFilename ==
    /\ listDone => listInferred.title = ClaimedTitle(filename)
    /\ (listDone /\ detailDone) => detailInferred.title = listInferred.title

----------------------------------------------------------------------------
(* Claims about formatRelativeDate (SpecRelDate)                           *)

Formatted == dpc = "done" /\ value # <<>> /\ parseDate(value).valid

DaysAgo == DiffDays(parseDate(value), today, tzMinutes)

\* C9: the phrase for a parseable date is one of the active locale's: its
\* "today" phrase when the date is today or later, and otherwise one of its
\* "N units ago" phrases.
C9_PhraseOfTheActiveLocale ==
    Formatted =>
        IF DaysAgo <= 0
        THEN phrase = TEXT_today(ActiveLocale(lang))
        ELSE \E n \in 0..DaysAgo, unit \in {"day", "week", "month", "year"} :
                 phrase = TEXT(ActiveLocale(lang), unit, n)

\* The number a phrase starts with.
LeadingNumber(s) == ParseNat(SubSeq(s, 1, RunLength(s, 1, Digits)))

\* C10: the number in the phrase for a date at least one day back is at
\* least 1.
C10_NeverZeroAgo == (Formatted /\ DaysAgo >= 1) => LeadingNumber(phrase) >= 1

----------------------------------------------------------------------------
(* Specifications                                                          *)

InitCatalog ==
    /\ files = <<>>
    /\ outcome = <<>>
    /\ results = <<>>
    /\ catalog = <<>>
    /\ lpc = "start"
    /\ IdleMarkdown /\ IdleFront /\ IdleFilename /\ IdleRelDate

NextCatalog == Discover \/ FetchSettles \/ BuildCatalog

SpecCatalog == InitCatalog /\ [][NextCatalog]_vars

InitMarkdown ==
    /\ markdown \in Bodies
    /\ lines = <<>>
    /\ pos = 0
    /\ html = <<>>
    /\ inCode = FALSE
    /\ codeLines = <<>>
    /\ listBuffer = <<>>
    /\ rendered = <<>>
    /\ mpc = "start"
    /\ origin = <<>>
    /\ listOrigin = {}
    /\ codeOrigin = {}
    /\ IdleCatalog /\ IdleFront /\ IdleFilename /\ IdleRelDate

NextMarkdown ==
    \/ StartRender
    \/ CloseFence
    \/ OpenFence
    \/ CodeLine
    \/ HeadingLine
    \/ ListLine
    \/ OtherLine
    \/ FinishRender

SpecMarkdown == InitMarkdown /\ [][NextMarkdown]_vars

InitFront ==
    /\ text \in Documents
    /\ split = [frontmatter |-> <<>>, body |-> <<>>]
    /\ metadata = EmptyObject
    /\ listMetadata = EmptyObject
    /\ fpc = "fetched"
    /\ lfpc = "fetched"
    /\ IdleCatalog /\ IdleMarkdown /\ IdleFilename /\ IdleRelDate

NextFront == SplitDocument \/ ParseMetadata \/ ParseListMetadata

SpecFront == InitFront /\ [][NextFront]_vars

InitFilename ==
    /\ filename \in Filenames
    /\ listInferred = NoInference
    /\ detailInferred = NoInference
    /\ listDone = FALSE
    /\ detailDone = FALSE
    /\ IdleCatalog /\ IdleMarkdown /\ IdleFront /\ IdleRelDate

NextFilename == InferList \/ InferDetail

SpecFilename == InitFilename /\ [][NextFilename]_vars

InitRelDate ==
    /\ lang \in PageLangs
    /\ tzMinutes \in ZoneOffsets
    /\ today \in FirstToday..(FirstToday + MaxTodayShift)
    /\ value \in DateValues
    /\ phrase = <<>>
    /\ dpc = "start"
    /\ IdleCatalog /\ IdleMarkdown /\ IdleFront /\ IdleFilename

NextRelDate == FormatDate

SpecRelDate == InitRelDate /\ [][NextRelDate]_vars

\* The list page: loadReviews.
Init == InitCatalog

Next == NextCatalog

Spec == SpecCatalog

=============================================================================
